---- MODULE Spec2Model ----
(***************************************************************************)
(* forme-groups: immutable Values, flat Containers of Values and the       *)
(* Merkle hash tree that gives them a content hash.                        *)
(*                                                                         *)
(* One object is followed at a time: a Container (constructed, repackaged, *)
(* hashed, asked for membership) or a MerkleTree built directly from leaf  *)
(* hashes (root, verify, build called again).                              *)
(*                                                                         *)
(* Representation.                                                         *)
(*   - A raw element is [c, v]: c = "scalar" with v the identity of a      *)
(*     primitive value, or c = "tuple" / "list" for an element that is     *)
(*     itself a collection (hashable / unhashable).                        *)
(*   - A native collection is [shape, seq, set, pairs]: list and tuple use *)
(*     seq, set and frozenset use set, dict uses pairs (insertion order).  *)
(*   - A digest is a tuple: <<i>> for the hash of the data with identity   *)
(*     i, <<a, b>> for the hash of the concatenation of digests a and b.   *)
(*     The pair hash is injective (collision resistance of SHA-256).       *)
(*   - MerkleTree.levels[0] is a Leaves object; len(), iteration and `in`  *)
(*     are those of the tuple it wraps.  Leaves defines no __getitem__;    *)
(*     build() and hash_level() subscript it, and the subscript is         *)
(*     modelled as that of the wrapped tuple, the type hash_level          *)
(*     declares for its argument.                                          *)
(***************************************************************************)
EXTENDS Integers, Sequences, FiniteSets, TLC

VARIABLES
    source,     \* the native collection handed to BaseContainer(...)
    declared,   \* the second argument of BaseContainer(...), or omitted
    cont,       \* the BaseContainer (or the exception its construction raised)
    tree,       \* the MerkleTree (leaves, levels) and the data it was handed
    ret,        \* what the last call returned
    schema,     \* the BaseSchema: its fields' descriptors, in insertion order
    verdict,    \* what _verify_schema() returned or raised
    registry,   \* the BaseTypes_ object, and what _validate_types() gave for it
    lookup      \* what the last _get_type_from_alias() returned or raised

vars == <<source, declared, cont, tree, ret, schema, verdict, registry, lookup>>

-----------------------------------------------------------------------------
(* Bounds *)

NScalars == 2      \* distinct primitive raw values
MaxLen == 2        \* elements (dict: entries) of a source collection
NLeafHashes == 2   \* distinct leaf hashes handed to MerkleTree(...) directly
MaxLeaves == 4     \* leaves of a MerkleTree built directly
MaxLevels == 7     \* build() is not called again once levels is this long
ElemRange == 2     \* values of one element of a digest (256 for bytes), scaled
MaxDepth == 2      \* nesting depth of a type expression
MaxFields == 2     \* fields of a schema that mixes descriptors

-----------------------------------------------------------------------------
(* Small helpers *)

NoneVal == <<>>

Range(s) == {s[i] : i \in 1..Len(s)}

Min(a, b) == IF a < b THEN a ELSE b

SeqsUpTo(S, n) == UNION {[1..k -> S] : k \in 0..n}

Distinct(s) == \A i, j \in 1..Len(s) : i # j => s[i] # s[j]

\* item[::2] and item[1::2]
RECURSIVE Slice2(_, _)
Slice2(s, from) ==
    IF from > Len(s) THEN <<>> ELSE <<s[from]>> \o Slice2(s, from + 2)

-----------------------------------------------------------------------------
(* Raw values and native collections *)

Scalar(n) == [c |-> "scalar", v |-> n]
Scalars == {Scalar(n) : n \in 1..NScalars}
NestedTuple == [c |-> "tuple", v |-> 0]
NestedList == [c |-> "list", v |-> 0]
Hashable == Scalars \cup {NestedTuple}
Elements == Scalars \cup {NestedTuple, NestedList}

IsContainerValue(e) == e.c # "scalar"

LinearShapes == {"list", "tuple", "set", "frozenset"}
NamedShapes == {"dict"}

NativeList(s) == [shape |-> "list", seq |-> s, set |-> {}, pairs |-> <<>>]
NativeTuple(s) == [shape |-> "tuple", seq |-> s, set |-> {}, pairs |-> <<>>]
NativeSet(S) == [shape |-> "set", seq |-> <<>>, set |-> S, pairs |-> <<>>]
NativeFrozenSet(S) == [shape |-> "frozenset", seq |-> <<>>, set |-> S, pairs |-> <<>>]
NativeDict(p) == [shape |-> "dict", seq |-> <<>>, set |-> {}, pairs |-> p]
NativeNone == [shape |-> "None", seq |-> <<>>, set |-> {}, pairs |-> <<>>]

DictKeys(p) == [i \in 1..Len(p) |-> p[i][1]]
DictValues(p) == [i \in 1..Len(p) |-> p[i][2]]

Sources ==
    {NativeList(s) : s \in SeqsUpTo(Elements, MaxLen)}
    \cup {NativeTuple(s) : s \in SeqsUpTo(Elements, MaxLen)}
    \cup {NativeSet(S) : S \in {T \in SUBSET Hashable : Cardinality(T) <= MaxLen}}
    \cup {NativeFrozenSet(S) : S \in {T \in SUBSET Hashable : Cardinality(T) <= MaxLen}}
    \cup {NativeDict(p) : p \in {q \in SeqsUpTo(Hashable \X Elements, MaxLen) :
                                    Distinct(DictKeys(q))}}

\* The orders in which iterating a set can produce its elements.
Enumerations(S) == {s \in [1..Cardinality(S) -> S] : Range(s) = S}

-----------------------------------------------------------------------------
(* Type registry: the container kinds and their aliases *)

ContainerKinds == {"dict", "list", "tuple", "set", "frozenset"}

ContainerAliases(kind) ==
    CASE kind = "dict" -> {"Dictionary", "dictionary", "DICTIONARY", "Dict", "dict",
                           "DICT", "DictType", "dict_type", "DICT_TYPE"}
      [] kind = "list" -> {"List", "list", "LIST", "ListType", "list_type", "LIST_TYPE"}
      [] kind = "tuple" -> {"Tuple", "tuple", "TUPLE", "TupleType", "tuple_type",
                            "TUPLE_TYPE"}
      [] kind = "set" -> {"Set", "set", "SET", "SetType", "set_type", "SET_TYPE"}
      [] kind = "frozenset" -> {"FrozenSet", "frozenset", "FROZENSET", "FrozenSetType",
                                "frozenset_type", "FROZENSET_TYPE"}

\* The primitive kinds of BaseTypes_ and their aliases.
PrimitiveKinds == {"int", "float", "bool", "str", "bytes"}

PrimitiveAliases(kind) ==
    CASE kind = "int" -> {"Integer", "integer", "INTEGER", "Int", "int", "INT",
                          "IntegerType", "integer_type", "INTEGER_TYPE",
                          "IntType", "int_type", "INT_TYPE"}
      [] kind = "float" -> {"FloatingPoint", "floating_point", "FLOATING_POINT",
                            "Float", "float", "FLOAT",
                            "FloatingPointType", "floating_point_type",
                            "FLOATING_POINT_TYPE",
                            "FloatType", "float_type", "FLOAT_TYPE"}
      [] kind = "bool" -> {"Boolean", "boolean", "BOOLEAN", "Bool", "bool", "BOOL",
                           "BooleanType", "boolean_type", "BOOLEAN_TYPE",
                           "BoolType", "bool_type", "BOOL_TYPE"}
      [] kind = "str" -> {"String", "string", "STRING", "Str", "str", "STR",
                          "StringType", "string_type", "STRING_TYPE",
                          "StrType", "str_type", "STR_TYPE"}
      [] kind = "bytes" -> {"Bytes", "bytes", "BYTES",
                            "BytesType", "bytes_type", "BYTES_TYPE"}

AllPrimitiveAliases == UNION {PrimitiveAliases(k) : k \in PrimitiveKinds}

\* Mutant of GetTypeFromAlias: the alias is looked up among the primitive kinds
\* as well as the container kinds.
GetTypeFromAliasOfAnyKind(alias) ==
    IF \E k \in ContainerKinds : alias \in ContainerAliases(k)
    THEN CHOOSE k \in ContainerKinds : alias \in ContainerAliases(k)
    ELSE IF \E k \in PrimitiveKinds : alias \in PrimitiveAliases(k)
    THEN CHOOSE k \in PrimitiveKinds : alias \in PrimitiveAliases(k)
    ELSE "None"

\* BaseTypesInterface._get_type_from_alias: the kind one of whose aliases equals
\* the string, None when there is none.
GetTypeFromAlias(alias) ==
    IF \E k \in ContainerKinds : alias \in ContainerAliases(k)
    THEN CHOOSE k \in ContainerKinds : alias \in ContainerAliases(k)
    ELSE "None"

-----------------------------------------------------------------------------
(* Value *)

\* BaseValue(raw) raises TypeError when raw is a collection.
BaseValueRaises(raw) == IsContainerValue(raw)

BaseValue(raw) == [value |-> raw]

-----------------------------------------------------------------------------
(* Container construction *)

Omitted == [t |-> "omitted", v |-> ""]
AliasArg(a) == [t |-> "str", v |-> a]
TypeArg(n) == [t |-> "type", v |-> n]
OtherArg == [t |-> "other", v |-> "1"]

\* Aliases of primitive kinds given as the declared kind.
PrimitiveAliasArgs == {"int", "integer", "str", "Boolean", "BYTES", "float"}

\* The second argument of BaseContainer(...) that the model tries.
DeclaredArgs ==
    {Omitted, OtherArg, AliasArg(""), AliasArg("dictionary"),
     TypeArg("int"), TypeArg("list")}
    \cup {AliasArg(k) : k \in ContainerKinds}
    \cup {AliasArg(a) : a \in PrimitiveAliasArgs}

\* The order in which the source's elements are visited: that of a list or
\* tuple, any order for a set or frozenset.
Iterations(src) ==
    IF src.shape \in {"list", "tuple"} THEN {src.seq}
    ELSE IF src.shape \in {"set", "frozenset"} THEN Enumerations(src.set)
    ELSE {<<>>}

ContainsSubContainer(src, it) ==
    IF src.shape \in LinearShapes
    THEN \E i \in 1..Len(it) : IsContainerValue(it[i])
    ELSE IF src.shape \in NamedShapes
    THEN \E i \in 1..Len(src.pairs) : IsContainerValue(src.pairs[i][2])
    ELSE FALSE

\* Mutant of NamedBaseValues: the value is put before its key, the order in
\* which __iter_items__ yields a dict.
RECURSIVE NamedBaseValuesValueFirst(_)
NamedBaseValuesValueFirst(p) ==
    IF p = <<>> THEN <<>>
    ELSE <<BaseValue(p[1][2]), BaseValue(p[1][1])>> \o NamedBaseValuesValueFirst(Tail(p))

\* Mutant of NamedBaseValues: all the keys, then all the values.
NamedBaseValuesKeysThenValues(p) ==
    [i \in 1..Len(p) |-> BaseValue(p[i][1])] \o [i \in 1..Len(p) |-> BaseValue(p[i][2])]

\* base_values += (BaseValue(key), BaseValue(value)) for every entry, in order
RECURSIVE NamedBaseValues(_)
NamedBaseValues(p) ==
    IF p = <<>> THEN <<>>
    ELSE <<BaseValue(p[1][1]), BaseValue(p[1][2])>> \o NamedBaseValues(Tail(p))

\* base_values += (BaseValue(item_),) for every element, in order
RECURSIVE LinearBaseValues(_)
LinearBaseValues(it) ==
    IF it = <<>> THEN <<>>
    ELSE <<BaseValue(Head(it))>> \o LinearBaseValues(Tail(it))

Raised(exc) == [status |-> exc, items |-> <<>>]
Converted(items) == [status |-> "ok", items |-> items]

BaseContainerConverter(src, it) ==
    IF ContainsSubContainer(src, it)
    THEN Raised("GroupBaseContainerException")
    ELSE IF src.shape \in LinearShapes
    THEN IF \E i \in 1..Len(it) : IsContainerValue(it[i])
         THEN Raised("GroupBaseContainerException")
         ELSE Converted(LinearBaseValues(it))
    ELSE IF src.shape \in NamedShapes
    THEN IF \E i \in 1..Len(src.pairs) : IsContainerValue(src.pairs[i][2])
         THEN Raised("GroupBaseContainerException")
         ELSE IF \E i \in 1..Len(src.pairs) : BaseValueRaises(src.pairs[i][1])
         THEN Raised("TypeError")
         ELSE Converted(NamedBaseValues(src.pairs))
    ELSE Raised("GroupBaseContainerException")

\* The default of the _type field, used when the argument is omitted.
DefaultType == "tuple"

BaseContainerTypeConverter(arg) ==
    IF arg.t = "str" /\ arg.v # "" THEN GetTypeFromAlias(arg.v)
    ELSE IF arg.t = "type" THEN arg.v
    ELSE "None"

TypeField(arg) ==
    IF arg.t = "omitted" THEN BaseContainerTypeConverter(TypeArg(DefaultType))
    ELSE BaseContainerTypeConverter(arg)

NoContainer == [status |-> "none", items |-> <<>>, type |-> "None"]

\* BaseContainer(src, arg): the converters run in field order (_items, _type),
\* then the validators; _type must be a type or a string.
NewContainer(src, arg, it) ==
    LET conv == BaseContainerConverter(src, it)
        ty == TypeField(arg)
    IN  IF conv.status # "ok"
        THEN [status |-> conv.status, items |-> <<>>, type |-> "None"]
        ELSE IF ty = "None"
        THEN [status |-> "TypeError", items |-> <<>>, type |-> "None"]
        ELSE [status |-> "ok", items |-> conv.items, type |-> ty]

-----------------------------------------------------------------------------
(* Container repackaging *)

\* {key.value: value.value for key, value in zip(keys, values)}: a key seen
\* again keeps its place and takes the later value.
RECURSIVE DictFromZip(_, _, _)
DictFromZip(keys, values, acc) ==
    IF keys = <<>> \/ values = <<>> THEN acc
    ELSE LET k == Head(keys).value
             v == Head(values).value
             upd == IF \E i \in 1..Len(acc) : acc[i][1] = k
                    THEN [i \in 1..Len(acc) |->
                            IF acc[i][1] = k THEN <<k, v>> ELSE acc[i]]
                    ELSE Append(acc, <<k, v>>)
         IN  DictFromZip(Tail(keys), Tail(values), upd)

RawValues(items) == [i \in 1..Len(items) |-> items[i].value]

Unpack(items, type) ==
    LET t == GetTypeFromAlias(type)
    IN  CASE t = "list" -> NativeList(RawValues(items))
          [] t = "tuple" -> NativeTuple(RawValues(items))
          [] t = "set" -> NativeSet(Range(RawValues(items)))
          [] t = "frozenset" -> NativeFrozenSet(Range(RawValues(items)))
          [] t = "dict" -> NativeDict(DictFromZip(Slice2(items, 1), Slice2(items, 2), <<>>))
          [] OTHER -> NativeNone

-----------------------------------------------------------------------------
(* Hash primitives *)

\* The digest of the data with identity n.
HashFunc(n) == <<n>>

\* MerkleTree._hash_items: the digest of item1 + item2, item1 paired with
\* itself when item2 is None.
HashItems(item1, item2) ==
    IF item2 = NoneVal THEN <<item1, item1>> ELSE <<item1, item2>>

\* digest[0]: one element of a digest has ElemRange values, so digests share
\* it; which do is a property of SHA-256 that the model replaces by the
\* identity of the leftmost data hashed, modulo ElemRange.
RECURSIVE LeftmostData(_)
LeftmostData(d) == IF Len(d) = 1 THEN d[1] ELSE LeftmostData(d[1])

DigestElem0(d) == LeftmostData(d) % ElemRange

\* What a call returns.
RNone == [tag |-> "None", v |-> <<>>]
RDigest(d) == [tag |-> "digest", v |-> d]
RElem(n) == [tag |-> "elem", v |-> <<n>>]
RBool(b) == [tag |-> "bool", v |-> <<IF b THEN 1 ELSE 0>>]

-----------------------------------------------------------------------------
(* Merkle tree *)

\* A level of the tree: a tuple of digests, or (bare) one digest that is not
\* wrapped in a tuple.
TupleLevel(hs) == [bare |-> FALSE, hs |-> hs]
BareLevel(d) == [bare |-> TRUE, hs |-> <<d>>]

LeafHashes == {HashFunc(i) : i \in 1..NLeafHashes}

\* What MerkleTree(...) is handed: leaf hashes, and None as an item that is
\* neither str, bytes nor SHA256Hash.
HashedData == SeqsUpTo(LeafHashes \cup {NoneVal}, MaxLeaves)

RECURSIVE HashLevelFrom(_, _)
HashLevelFrom(level, i) ==
    IF i >= Len(level) THEN <<>>
    ELSE IF i = Len(level) - 1
    THEN <<HashItems(level[i + 1], NoneVal)>> \o HashLevelFrom(level, i + 2)
    ELSE <<HashItems(level[i + 1], level[i + 2])>> \o HashLevelFrom(level, i + 2)

\* MerkleTree.hash_level: for i in range(0, len(level), 2)
HashLevel(level) == HashLevelFrom(level, 0)

\* while len(level) > 1: levels += (hash_level(level),); level = levels[-1]
RECURSIVE BuildLoop(_, _)
BuildLoop(level, levels) ==
    IF Len(level) > 1
    THEN BuildLoop(HashLevel(level), Append(levels, TupleLevel(HashLevel(level))))
    ELSE levels

\* Mutant of Build: called on a tree that has levels above its leaves, it
\* hashes the last level once more.
BuildHashingLastLevel(leaves, levels) ==
    IF Len(levels) > 1
    THEN Append(levels, TupleLevel(HashLevel(levels[Len(levels)].hs)))
    ELSE LET first == IF Len(levels[1].hs) = 1
                      THEN Append(levels, BareLevel(HashItems(leaves[1], NoneVal)))
                      ELSE levels
         IN  BuildLoop(leaves, first)

\* MerkleTree.build
Build(leaves, levels) ==
    LET first == IF Len(levels[1].hs) = 1
                 THEN Append(levels, BareLevel(HashItems(leaves[1], NoneVal)))
                 ELSE levels
    IN  BuildLoop(leaves, first)

NoTree == [st |-> "none", data |-> <<>>, leaves |-> <<>>, levels |-> <<>>]

\* MerkleTree.__init__: leaves = Leaves(hashed_data), levels = (leaves,), build()
NewMerkleTree(data) ==
    IF \E i \in 1..Len(data) : data[i] = NoneVal
    THEN [st |-> "ValueError", data |-> data, leaves |-> <<>>, levels |-> <<>>]
    ELSE [st |-> "built", data |-> data, leaves |-> data,
          levels |-> Build(data, <<TupleLevel(data)>>)]

\* levels[-1][0]
LastLevelItem0(levels) ==
    LET last == levels[Len(levels)]
    IN  IF last.bare THEN RElem(DigestElem0(last.hs[1])) ELSE RDigest(last.hs[1])

\* Mutant of Root: the test for an empty leaf set is left out, and levels[-1][0]
\* of the empty level raises IndexError.
RootWithoutEmptyCheck(t) ==
    IF Len(t.levels) = 0 THEN RNone
    ELSE IF Len(t.levels[Len(t.levels)].hs) = 0
    THEN [tag |-> "IndexError", v |-> <<>>]
    ELSE LastLevelItem0(t.levels)

\* MerkleTree.root
Root(t) ==
    IF Len(t.levels) = 0 \/ Len(t.leaves) = 0 THEN RNone
    ELSE LastLevelItem0(t.levels)

\* Mutant of Verify: the hash is looked for in every level of the tree.
VerifyAnyLevel(t, leaf_hash) ==
    \E i \in 1..Len(t.levels) : leaf_hash \in Range(t.levels[i].hs)

\* MerkleTree.verify
Verify(t, leaf_hash) == leaf_hash \in Range(t.leaves)

\* The digests of the levels above the leaves.
InnerDigests(t) ==
    UNION {Range(t.levels[i].hs) : i \in 2..Len(t.levels)}

-----------------------------------------------------------------------------
(* Container hashing *)

\* item._hash().root() of a Value: the digest of its raw value.
ValueHash(item) == HashFunc(item.value.v)

KindCode(type) ==
    CASE type = "dict" -> 101
      [] type = "list" -> 102
      [] type = "tuple" -> 103
      [] type = "set" -> 104
      [] type = "frozenset" -> 105
      [] OTHER -> 106

\* MerkleTree.hash_func(repr(self.type))
KindHash(type) == HashFunc(KindCode(type))

\* BaseContainer.__iter_items__ over the _items tuple
IterItems(items) == items

\* Mutant of HashedItems: the hash of the kind tag is not appended.
HashedItemsWithoutKindTag(c) ==
    [i \in 1..Len(IterItems(c.items)) |-> ValueHash(IterItems(c.items)[i])]

\* The leaves BaseContainer._hash hands to MerkleTree
HashedItems(c) ==
    [i \in 1..Len(IterItems(c.items)) |-> ValueHash(IterItems(c.items)[i])]
    \o <<KindHash(c.type)>>

\* BaseContainer._hash
ContainerHash(c) == NewMerkleTree(HashedItems(c))

\* BaseContainer._verify_item
VerifyItem(c, item) == Verify(ContainerHash(c), ValueHash(item))

-----------------------------------------------------------------------------
(* Text: a str is the sequence of its characters *)

\* The characters of the words the model writes.
Chars(a) ==
    CASE a = "Integer" -> <<"I", "n", "t", "e", "g", "e", "r">>
      [] a = "integer" -> <<"i", "n", "t", "e", "g", "e", "r">>
      [] a = "INTEGER" -> <<"I", "N", "T", "E", "G", "E", "R">>
      [] a = "Int" -> <<"I", "n", "t">>
      [] a = "int" -> <<"i", "n", "t">>
      [] a = "INT" -> <<"I", "N", "T">>
      [] a = "IntegerType" -> <<"I", "n", "t", "e", "g", "e", "r", "T", "y", "p", "e">>
      [] a = "integer_type" -> <<"i", "n", "t", "e", "g", "e", "r", "_", "t", "y", "p", "e">>
      [] a = "INTEGER_TYPE" -> <<"I", "N", "T", "E", "G", "E", "R", "_", "T", "Y", "P", "E">>
      [] a = "IntType" -> <<"I", "n", "t", "T", "y", "p", "e">>
      [] a = "int_type" -> <<"i", "n", "t", "_", "t", "y", "p", "e">>
      [] a = "INT_TYPE" -> <<"I", "N", "T", "_", "T", "Y", "P", "E">>
      [] a = "FloatingPoint" -> <<"F", "l", "o", "a", "t", "i", "n", "g", "P", "o", "i", "n", "t">>
      [] a = "floating_point" -> <<"f", "l", "o", "a", "t", "i", "n", "g", "_", "p", "o", "i", "n", "t">>
      [] a = "FLOATING_POINT" -> <<"F", "L", "O", "A", "T", "I", "N", "G", "_", "P", "O", "I", "N", "T">>
      [] a = "Float" -> <<"F", "l", "o", "a", "t">>
      [] a = "float" -> <<"f", "l", "o", "a", "t">>
      [] a = "FLOAT" -> <<"F", "L", "O", "A", "T">>
      [] a = "FloatingPointType" -> <<"F", "l", "o", "a", "t", "i", "n", "g", "P", "o", "i", "n", "t", "T", "y", "p", "e">>
      [] a = "floating_point_type" -> <<"f", "l", "o", "a", "t", "i", "n", "g", "_", "p", "o", "i", "n", "t", "_", "t", "y", "p", "e">>
      [] a = "FLOATING_POINT_TYPE" -> <<"F", "L", "O", "A", "T", "I", "N", "G", "_", "P", "O", "I", "N", "T", "_", "T", "Y", "P", "E">>
      [] a = "FloatType" -> <<"F", "l", "o", "a", "t", "T", "y", "p", "e">>
      [] a = "float_type" -> <<"f", "l", "o", "a", "t", "_", "t", "y", "p", "e">>
      [] a = "FLOAT_TYPE" -> <<"F", "L", "O", "A", "T", "_", "T", "Y", "P", "E">>
      [] a = "Boolean" -> <<"B", "o", "o", "l", "e", "a", "n">>
      [] a = "boolean" -> <<"b", "o", "o", "l", "e", "a", "n">>
      [] a = "BOOLEAN" -> <<"B", "O", "O", "L", "E", "A", "N">>
      [] a = "Bool" -> <<"B", "o", "o", "l">>
      [] a = "bool" -> <<"b", "o", "o", "l">>
      [] a = "BOOL" -> <<"B", "O", "O", "L">>
      [] a = "BooleanType" -> <<"B", "o", "o", "l", "e", "a", "n", "T", "y", "p", "e">>
      [] a = "boolean_type" -> <<"b", "o", "o", "l", "e", "a", "n", "_", "t", "y", "p", "e">>
      [] a = "BOOLEAN_TYPE" -> <<"B", "O", "O", "L", "E", "A", "N", "_", "T", "Y", "P", "E">>
      [] a = "BoolType" -> <<"B", "o", "o", "l", "T", "y", "p", "e">>
      [] a = "bool_type" -> <<"b", "o", "o", "l", "_", "t", "y", "p", "e">>
      [] a = "BOOL_TYPE" -> <<"B", "O", "O", "L", "_", "T", "Y", "P", "E">>
      [] a = "String" -> <<"S", "t", "r", "i", "n", "g">>
      [] a = "string" -> <<"s", "t", "r", "i", "n", "g">>
      [] a = "STRING" -> <<"S", "T", "R", "I", "N", "G">>
      [] a = "Str" -> <<"S", "t", "r">>
      [] a = "str" -> <<"s", "t", "r">>
      [] a = "STR" -> <<"S", "T", "R">>
      [] a = "StringType" -> <<"S", "t", "r", "i", "n", "g", "T", "y", "p", "e">>
      [] a = "string_type" -> <<"s", "t", "r", "i", "n", "g", "_", "t", "y", "p", "e">>
      [] a = "STRING_TYPE" -> <<"S", "T", "R", "I", "N", "G", "_", "T", "Y", "P", "E">>
      [] a = "StrType" -> <<"S", "t", "r", "T", "y", "p", "e">>
      [] a = "str_type" -> <<"s", "t", "r", "_", "t", "y", "p", "e">>
      [] a = "STR_TYPE" -> <<"S", "T", "R", "_", "T", "Y", "P", "E">>
      [] a = "Bytes" -> <<"B", "y", "t", "e", "s">>
      [] a = "bytes" -> <<"b", "y", "t", "e", "s">>
      [] a = "BYTES" -> <<"B", "Y", "T", "E", "S">>
      [] a = "BytesType" -> <<"B", "y", "t", "e", "s", "T", "y", "p", "e">>
      [] a = "bytes_type" -> <<"b", "y", "t", "e", "s", "_", "t", "y", "p", "e">>
      [] a = "BYTES_TYPE" -> <<"B", "Y", "T", "E", "S", "_", "T", "Y", "P", "E">>
      [] a = "list" -> <<"l", "i", "s", "t">>
      [] a = "tuple" -> <<"t", "u", "p", "l", "e">>
      [] a = "set" -> <<"s", "e", "t">>
      [] a = "frozenset" -> <<"f", "r", "o", "z", "e", "n", "s", "e", "t">>
      [] a = "dict" -> <<"d", "i", "c", "t">>
      [] a = "Dictionary" -> <<"D", "i", "c", "t", "i", "o", "n", "a", "r", "y">>
      [] a = "dictionary" -> <<"d", "i", "c", "t", "i", "o", "n", "a", "r", "y">>
      [] a = "DICTIONARY" -> <<"D", "I", "C", "T", "I", "O", "N", "A", "R", "Y">>
      [] a = "Dict" -> <<"D", "i", "c", "t">>
      [] a = "DICT" -> <<"D", "I", "C", "T">>
      [] a = "DictType" -> <<"D", "i", "c", "t", "T", "y", "p", "e">>
      [] a = "dict_type" -> <<"d", "i", "c", "t", "_", "t", "y", "p", "e">>
      [] a = "DICT_TYPE" -> <<"D", "I", "C", "T", "_", "T", "Y", "P", "E">>
      [] a = "List" -> <<"L", "i", "s", "t">>
      [] a = "LIST" -> <<"L", "I", "S", "T">>
      [] a = "ListType" -> <<"L", "i", "s", "t", "T", "y", "p", "e">>
      [] a = "list_type" -> <<"l", "i", "s", "t", "_", "t", "y", "p", "e">>
      [] a = "LIST_TYPE" -> <<"L", "I", "S", "T", "_", "T", "Y", "P", "E">>
      [] a = "Tuple" -> <<"T", "u", "p", "l", "e">>
      [] a = "TUPLE" -> <<"T", "U", "P", "L", "E">>
      [] a = "TupleType" -> <<"T", "u", "p", "l", "e", "T", "y", "p", "e">>
      [] a = "tuple_type" -> <<"t", "u", "p", "l", "e", "_", "t", "y", "p", "e">>
      [] a = "TUPLE_TYPE" -> <<"T", "U", "P", "L", "E", "_", "T", "Y", "P", "E">>
      [] a = "Set" -> <<"S", "e", "t">>
      [] a = "SET" -> <<"S", "E", "T">>
      [] a = "SetType" -> <<"S", "e", "t", "T", "y", "p", "e">>
      [] a = "set_type" -> <<"s", "e", "t", "_", "t", "y", "p", "e">>
      [] a = "SET_TYPE" -> <<"S", "E", "T", "_", "T", "Y", "P", "E">>
      [] a = "FrozenSet" -> <<"F", "r", "o", "z", "e", "n", "S", "e", "t">>
      [] a = "FROZENSET" -> <<"F", "R", "O", "Z", "E", "N", "S", "E", "T">>
      [] a = "FrozenSetType" -> <<"F", "r", "o", "z", "e", "n", "S", "e", "t", "T", "y", "p", "e">>
      [] a = "frozenset_type" -> <<"f", "r", "o", "z", "e", "n", "s", "e", "t", "_", "t", "y", "p", "e">>
      [] a = "FROZENSET_TYPE" -> <<"F", "R", "O", "Z", "E", "N", "S", "E", "T", "_", "T", "Y", "P", "E">>
      [] a = "foobar" -> <<"f", "o", "o", "b", "a", "r">>
      [] a = "schema" -> <<"s", "c", "h", "e", "m", "a">>
      [] a = "number" -> <<"n", "u", "m", "b", "e", "r">>
      [] a = "byte" -> <<"b", "y", "t", "e">>
      [] a = "foo" -> <<"f", "o", "o">>
      [] a = "bar" -> <<"b", "a", "r">>
      [] a = "address" -> <<"a", "d", "d", "r", "e", "s", "s">>

\* s.startswith(prefix)
StartsWith(s, prefix) ==
    Len(s) >= Len(prefix) /\ SubSeq(s, 1, Len(prefix)) = prefix

\* s[from:-1]
SliceToLast(s, from) ==
    IF from + 1 > Len(s) - 1 THEN <<>> ELSE SubSeq(s, from + 1, Len(s) - 1)

\* s[:-1]
AllButLast(s) == SliceToLast(s, 0)

\* sub in s
Contains(s, sub) ==
    \E i \in 1..(Len(s) - Len(sub) + 1) : SubSeq(s, i, i + Len(sub) - 1) = sub

\* s.replace(old, "")
RECURSIVE Remove(_, _)
Remove(s, old) ==
    IF Len(s) < Len(old) THEN s
    ELSE IF StartsWith(s, old) THEN Remove(SubSeq(s, Len(old) + 1, Len(s)), old)
    ELSE <<Head(s)>> \o Remove(Tail(s), old)

\* s.split(sep)
RECURSIVE SplitFrom(_, _, _)
SplitFrom(s, sep, piece) ==
    IF s = <<>> THEN <<piece>>
    ELSE IF StartsWith(s, sep)
    THEN <<piece>> \o SplitFrom(SubSeq(s, Len(sep) + 1, Len(s)), sep, <<>>)
    ELSE SplitFrom(Tail(s), sep, Append(piece, Head(s)))

Split(s, sep) == SplitFrom(s, sep, <<>>)

\* a or b, of two strs
StrOr(a, b) == IF a # <<>> THEN a ELSE b

Comma == <<",">>
CommaSpace == <<",", " ">>
OpenSquare == <<"[">>
CloseSquare == <<"]">>
OpenRound == <<"(">>
CloseRound == <<")">>
OpenCurly == <<"{">>
CloseCurly == <<"}">>
Colon == <<":">>

-----------------------------------------------------------------------------
(* Schema *)

\* A descriptor: a str, an embedded BaseSchema (its fields, in order), or
\* another object (an int, a list).
Text(s) == [k |-> "str", s |-> s, fields |-> <<>>]
NumberObj == [k |-> "int", s |-> <<>>, fields |-> <<>>]
ListObj == [k |-> "list", s |-> <<>>, fields |-> <<>>]
SubSchema(fields) == [k |-> "schema", s |-> <<>>, fields |-> fields]

SchemaMarker == Chars("schema")

\* Mutant of SchemaIter: an embedded BaseSchema is yielded like any other value.
SchemaIterYieldsObject(fields) == fields

\* BaseSchema.__iter__: the values of the dicts it yields, in order
RECURSIVE SchemaIter(_)
SchemaIter(fields) ==
    IF fields = <<>> THEN <<>>
    ELSE (IF Head(fields).k = "schema"
          THEN <<Text(SchemaMarker)>> \o SchemaIter(Head(fields).fields)
          ELSE <<Head(fields)>>)
         \o SchemaIter(Tail(fields))

\* BaseSchema._get_key_types_from_schema: set(key_types); a list is unhashable
GetKeyTypesFromSchema(fields) ==
    IF \E i \in 1..Len(SchemaIter(fields)) : SchemaIter(fields)[i].k = "list"
    THEN [tag |-> "TypeError", set |-> {}]
    ELSE [tag |-> "ok", set |-> Range(SchemaIter(fields))]

\* One step of _unpack_strings
UnpackStep(type_strings) ==
    IF StartsWith(type_strings, Chars("schema") \o Colon)
    THEN SchemaMarker
    ELSE IF StartsWith(type_strings, Chars("list") \o OpenSquare)
    THEN SliceToLast(type_strings, 5)
    ELSE IF \/ StartsWith(type_strings, Chars("tuple") \o OpenSquare)
            \/ StartsWith(type_strings, Chars("tuple") \o OpenRound)
    THEN SliceToLast(type_strings, 6)
    ELSE IF \/ StartsWith(type_strings, Chars("set") \o OpenSquare)
            \/ StartsWith(AllButLast(type_strings), Chars("set") \o OpenCurly)
            \/ StartsWith(AllButLast(type_strings), Chars("set") \o OpenRound)
    THEN SliceToLast(type_strings, 4)
    ELSE IF \/ StartsWith(type_strings, Chars("frozenset") \o OpenRound \o OpenCurly)
            \/ StartsWith(type_strings, Chars("frozenset") \o OpenRound)
            \/ StartsWith(type_strings, Chars("frozenset") \o OpenSquare)
    THEN StrOr(Remove(Remove(SliceToLast(type_strings, 11),
                             Chars("frozenset") \o OpenRound \o OpenCurly),
                      CloseCurly \o CloseRound),
               Remove(SliceToLast(type_strings, 10), Chars("frozenset") \o OpenSquare))
    ELSE IF \/ StartsWith(type_strings, Chars("dict") \o OpenCurly)
            \/ StartsWith(type_strings, Chars("dict") \o OpenSquare)
    THEN SliceToLast(type_strings, 5)
    ELSE type_strings

\* Mutant of UnpackStrings: "tuple[" is stripped like "list[", five characters.
RECURSIVE UnpackStringsTupleAsList(_)
UnpackStringsTupleAsList(type_strings) ==
    LET returned == IF StartsWith(type_strings, Chars("tuple") \o OpenSquare)
                    THEN SliceToLast(type_strings, 5)
                    ELSE UnpackStep(type_strings)
    IN  IF returned = type_strings THEN returned
        ELSE UnpackStringsTupleAsList(returned)

\* BaseSchema._unpack_strings
RECURSIVE UnpackStrings(_)
UnpackStrings(type_strings) ==
    IF UnpackStep(type_strings) = type_strings THEN type_strings
    ELSE UnpackStrings(UnpackStep(type_strings))

\* Mutant of GetValuesFromStringTuple: the str is not split; its commas are
\* replaced and it is returned whole.
GetValuesFromStringTupleUnsplit(types) ==
    <<[i \in 1..Len(types) |-> IF types[i] = "," THEN ";" ELSE types[i]]>>

\* BaseSchema._get_values_from_string_tuple
GetValuesFromStringTuple(types) ==
    IF Contains(types, CommaSpace) THEN Split(types, CommaSpace)
    ELSE IF Contains(types, Comma) THEN Split(types, Comma)
    ELSE <<types>>

\* BaseSchema._fully_unpack_types: the units of every split type are those of
\* _fully_unpack_types([split_type]), appended in order.
RECURSIVE FullyUnpackTypes(_)
FullyUnpackTypes(types) ==
    IF types = <<>> THEN <<>>
    ELSE LET unpacked == UnpackStrings(Head(types))
         IN  (IF Contains(unpacked, Comma)
              THEN FullyUnpackTypes(GetValuesFromStringTuple(unpacked))
              ELSE <<unpacked>>)
             \o FullyUnpackTypes(Tail(types))

\* The recursive calls of _unpack_strings that _unpack_strings(type_strings)
\* leads to, each as <<the caller's argument, the argument of the call>>.
RECURSIVE UnpackCalls(_)
UnpackCalls(type_strings) ==
    IF UnpackStep(type_strings) = type_strings THEN {}
    ELSE {<<type_strings, UnpackStep(type_strings)>>}
            \cup UnpackCalls(UnpackStep(type_strings))

\* The recursive calls of _fully_unpack_types that _fully_unpack_types([key_type])
\* leads to, each as <<the caller's key_type, what it unpacked to, split_type>>.
RECURSIVE FullyUnpackCalls(_)
FullyUnpackCalls(key_type) ==
    LET unpacked == UnpackStrings(key_type)
        split_types == GetValuesFromStringTuple(unpacked)
    IN  IF Contains(unpacked, Comma)
        THEN UNION {{<<key_type, unpacked, split_types[i]>>}
                        \cup FullyUnpackCalls(split_types[i]) :
                            i \in 1..Len(split_types)}
        ELSE {}

\* The key types _fully_unpack_types is called with while it unpacks key_type.
KeyTypesUnpacked(key_type) ==
    {key_type} \cup {c[3] : c \in FullyUnpackCalls(key_type)}

\* The key types _verify_base_types lets pass.
ValidKeyTypes ==
    {SchemaMarker, SchemaMarker \o Colon,
     Chars("bool"), Chars("boolean"), Chars("int"), Chars("integer"),
     Chars("float"), Chars("number"), Chars("str"), Chars("string"),
     Chars("bytes"), Chars("byte")}

Pair(ok, msg) == [tag |-> "pair", ok |-> ok, msg |-> msg]
SchemaRaised(exc) == [tag |-> exc, ok |-> FALSE, msg |-> <<>>]
NoVerdict == [tag |-> "none", ok |-> FALSE, msg |-> <<>>]

\* Mutant of VerifyBaseTypes: the loop is left at the first invalid key type.
VerifyBaseTypesFirstOnly(base_types) ==
    IF \E i \in 1..Len(base_types) : base_types[i] \notin ValidKeyTypes
    THEN Pair(FALSE,
              <<base_types[CHOOSE i \in 1..Len(base_types) :
                              /\ base_types[i] \notin ValidKeyTypes
                              /\ \A j \in 1..(i - 1) : base_types[j] \in ValidKeyTypes]>>)
    ELSE Pair(TRUE, <<>>)

\* BaseSchema._verify_base_types: msg lists the key types that err_msg names,
\* "Key type '<key_type>' is not valid. " for each, in order.
VerifyBaseTypes(base_types) ==
    Pair(\A i \in 1..Len(base_types) : base_types[i] \in ValidKeyTypes,
         SelectSeq(base_types, LAMBDA t : t \notin ValidKeyTypes))

\* BaseSchema._verify_schema, list(key_types) giving the set in this order
VerifySchema(fields, order) ==
    IF GetKeyTypesFromSchema(fields).tag # "ok"
    THEN SchemaRaised(GetKeyTypesFromSchema(fields).tag)
    ELSE IF \E i \in 1..Len(order) : order[i].k # "str"
    THEN SchemaRaised("AttributeError")
    ELSE VerifyBaseTypes(FullyUnpackTypes([i \in 1..Len(order) |-> order[i].s]))

\* The type expressions of test_init_with_large_schema: "list[", "tuple[" and
\* "dict[" nested around one primitive alias and closed by as many "]".
ChainPrimitives == {Chars("string"), Chars("integer")}

ChainWrappers ==
    {Chars("list") \o OpenSquare, Chars("tuple") \o OpenSquare, Chars("dict") \o OpenSquare}

RECURSIVE NestedChains(_)
NestedChains(d) ==
    IF d = 0 THEN ChainPrimitives
    ELSE {w \o e \o CloseSquare : w \in ChainWrappers, e \in NestedChains(d - 1)}

ChainExprs == UNION {NestedChains(d) : d \in 1..MaxDepth}

\* alias + open + primitive alias + close, for every container alias and every
\* balanced pair of brackets.
ContainerAliasTexts == {Chars(k) : k \in ContainerKinds}

BracketPairs ==
    {<<OpenSquare, CloseSquare>>, <<OpenRound, CloseRound>>, <<OpenCurly, CloseCurly>>}

BracketExprs ==
    {a \o b[1] \o Chars("int") \o b[2] : a \in ContainerAliasTexts, b \in BracketPairs}

\* alias + "[" + primitive alias, closed by nothing, by the closing bracket of
\* another style, or by a character that is no bracket.
WrongClosers == {<<>>, CloseRound, CloseCurly, <<"x">>}

MismatchedExprs ==
    {a \o OpenSquare \o p \o c :
        a \in {Chars("list"), Chars("tuple"), Chars("dict")},
        p \in {Chars("int"), Chars("bytes")},
        c \in WrongClosers}

\* The container grammar: alias, "[", one or two descriptors separated by ","
\* or ", ", "]", every descriptor a primitive alias or a container expression.
GrammarAliases == {Chars("dict")}
GrammarLeaves == {Chars("int")}
Separators == {Comma, CommaSpace}

RECURSIVE GrammarExprsOfDepth(_)
GrammarExprsOfDepth(d) ==
    IF d = 0 THEN GrammarLeaves
    ELSE LET E == GrammarExprsOfDepth(d - 1)
         IN  GrammarLeaves
             \cup {a \o OpenSquare \o inner \o CloseSquare :
                      a \in GrammarAliases,
                      inner \in E \cup {e[1] \o sep \o e[2] : e \in E \X E,
                                                              sep \in Separators}}

GrammarExprs == GrammarExprsOfDepth(MaxDepth)

\* Leaf tokens: aliases the registry declares, words _verify_base_types knows,
\* and words neither knows.
TokenWords ==
    {"int", "integer", "Integer", "INT", "int_type", "float", "Float", "bool",
     "boolean", "str", "string", "String", "bytes", "BYTES", "number", "byte",
     "schema", "foo", "bar", "list", "address"}

Tokens == {Chars(w) : w \in TokenWords}

\* The descriptors of the schemas that have several fields.
MixedDescriptors ==
    {Text(Chars("int")), Text(Chars("foo")), Text(Chars("bar")),
     Text(Chars("list") \o OpenSquare \o Chars("foo") \o CloseSquare),
     Text(Chars("dict") \o OpenSquare \o Chars("foo") \o CommaSpace \o Chars("foo")
          \o CloseSquare),
     Text(Chars("schema") \o Colon \o Chars("address")),
     NumberObj, ListObj,
     SubSchema(<<Text(Chars("string"))>>), SubSchema(<<Text(Chars("foo"))>>)}

SingleDescriptors ==
    {Text(t) : t \in ChainExprs \cup BracketExprs \cup MismatchedExprs
                        \cup GrammarExprs \cup Tokens}

\* The dicts BaseSchema(...) is handed: the descriptors of their fields.
Schemas ==
    {<<d>> : d \in SingleDescriptors} \cup SeqsUpTo(MixedDescriptors, MaxFields)

NoSchema == [st |-> "none", fields |-> <<>>]
NewSchema(fields) == [st |-> "ok", fields |-> fields]

\* list(key_types): the key types in the order the set gives them
KeyTypeOrders(fields) ==
    IF GetKeyTypesFromSchema(fields).tag = "ok"
    THEN Enumerations(GetKeyTypesFromSchema(fields).set)
    ELSE {<<>>}

-----------------------------------------------------------------------------
(* Registry: BaseTypeInterface and BaseTypes_ of src/groups/base/types.py *)

\* An Optional[str]: None, or the str.
NoStr == <<>>
Some(s) == <<s>>

\* The exclude argument of _contains: None, or a tuple of strs.
NoExclude == [given |-> FALSE, names |-> <<>>]
Exclude(names) == [given |-> TRUE, names |-> names]

\* A class, by its __name__.
Class(name) == [name |-> name]

\* BaseTypeInterface(aliases=..., prefix=..., suffix=..., separator=...,
\* type_class=...); obj is the identity of the object (what `is` compares).
BaseTypeInterface(obj, aliases, prefix, suffix, separator, type_class) ==
    [obj |-> obj, aliases |-> aliases, prefix |-> prefix, suffix |-> suffix,
     separator |-> separator, type_class |-> type_class]

\* The attributes of a BaseTypeInterface.
BaseTypeInterfaceSlots ==
    {"aliases", "super_type", "prefix", "suffix", "separator", "type_class",
     "type_var", "constraints", "_encryption_key"}

\* The fields of BaseTypes_, in the order of __slots__.
BaseTypesSlots ==
    <<"Integer", "FloatingPoint", "Boolean", "String", "Bytes",
      "Dictionary", "List", "Tuple", "Set", "FrozenSet">>

\* The defaults of the fields of BaseTypes_.
DefaultBaseTypes ==
    <<BaseTypeInterface(1,
        <<Chars("Integer"), Chars("integer"), Chars("INTEGER"),
          Chars("Int"), Chars("int"), Chars("INT"),
          Chars("IntegerType"), Chars("integer_type"), Chars("INTEGER_TYPE"),
          Chars("IntType"), Chars("int_type"), Chars("INT_TYPE")>>,
        NoStr, NoStr, NoStr, Class("int")),
      BaseTypeInterface(2,
        <<Chars("FloatingPoint"), Chars("floating_point"), Chars("FLOATING_POINT"),
          Chars("Float"), Chars("float"), Chars("FLOAT"),
          Chars("FloatingPointType"), Chars("floating_point_type"),
          Chars("FLOATING_POINT_TYPE"),
          Chars("FloatType"), Chars("float_type"), Chars("FLOAT_TYPE")>>,
        NoStr, NoStr, NoStr, Class("float")),
      BaseTypeInterface(3,
        <<Chars("Boolean"), Chars("boolean"), Chars("BOOLEAN"),
          Chars("Bool"), Chars("bool"), Chars("BOOL"),
          Chars("BooleanType"), Chars("boolean_type"), Chars("BOOLEAN_TYPE"),
          Chars("BoolType"), Chars("bool_type"), Chars("BOOL_TYPE")>>,
        NoStr, NoStr, NoStr, Class("bool")),
      BaseTypeInterface(4,
        <<Chars("String"), Chars("string"), Chars("STRING"),
          Chars("Str"), Chars("str"), Chars("STR"),
          Chars("StringType"), Chars("string_type"), Chars("STRING_TYPE"),
          Chars("StrType"), Chars("str_type"), Chars("STR_TYPE")>>,
        NoStr, NoStr, NoStr, Class("str")),
      BaseTypeInterface(5,
        <<Chars("Bytes"), Chars("bytes"), Chars("BYTES"),
          Chars("BytesType"), Chars("bytes_type"), Chars("BYTES_TYPE")>>,
        NoStr, NoStr, NoStr, Class("bytes")),
      BaseTypeInterface(6,
        <<Chars("Dictionary"), Chars("dictionary"), Chars("DICTIONARY"),
          Chars("Dict"), Chars("dict"), Chars("DICT"),
          Chars("DictType"), Chars("dict_type"), Chars("DICT_TYPE")>>,
        Some(OpenCurly), Some(CloseCurly), Some(Comma), Class("dict")),
      BaseTypeInterface(7,
        <<Chars("List"), Chars("list"), Chars("LIST"),
          Chars("ListType"), Chars("list_type"), Chars("LIST_TYPE")>>,
        Some(OpenSquare), Some(CloseSquare), Some(Comma), Class("list")),
      BaseTypeInterface(8,
        <<Chars("Tuple"), Chars("tuple"), Chars("TUPLE"),
          Chars("TupleType"), Chars("tuple_type"), Chars("TUPLE_TYPE")>>,
        Some(OpenRound), Some(CloseRound), Some(Comma), Class("tuple")),
      BaseTypeInterface(9,
        <<Chars("Set"), Chars("set"), Chars("SET"),
          Chars("SetType"), Chars("set_type"), Chars("SET_TYPE")>>,
        Some(OpenCurly), Some(CloseCurly), Some(Comma), Class("set")),
      BaseTypeInterface(10,
        <<Chars("FrozenSet"), Chars("frozenset"), Chars("FROZENSET"),
          Chars("FrozenSetType"), Chars("frozenset_type"), Chars("FROZENSET_TYPE")>>,
        Some(OpenCurly), Some(CloseCurly), Some(Comma), Class("frozenset"))>>

\* Mutant of TypeContains: a query that is a substring of an alias matches it.
TypeContainsBySubstring(base_type, query, exclude) ==
    IF \E i \in DOMAIN base_type.aliases : Contains(base_type.aliases[i], query)
    THEN "True"
    ELSE "False"

\* BaseTypeInterface._contains("aliases", query, exclude): "True", "False", or
\* "raise" when it raises GroupBaseTypeException.
TypeContains(base_type, query, exclude) ==
    IF \E i \in DOMAIN base_type.aliases : base_type.aliases[i] = query THEN "True"
    ELSE IF /\ ~exclude.given
            /\ \E i \in DOMAIN base_type.aliases :
                  Contains(base_type.aliases[i], query)
    THEN "raise"
    ELSE "False"

\* BaseTypeInterface._contains_alias(alias, exclude)
ContainsAlias(base_type, alias, exclude) == TypeContains(base_type, alias, exclude)

\* BaseTypeInterface._check_for_errors(): whether it raises
CheckForErrors(base_type) ==
    \/ /\ base_type.prefix # NoStr
       /\ base_type.suffix # NoStr
       /\ base_type.prefix = base_type.suffix
    \/ base_type.prefix = NoStr /\ base_type.suffix # NoStr
    \/ /\ base_type.prefix # NoStr
       /\ base_type.suffix = NoStr
       /\ base_type.separator # NoStr

\* BaseTypeInterface._type_to_string(type_), of a class
TypeToString(type_) == type_.name

\* BaseTypeInterface.__str__ reads self._aliases: the exception it raises, if any
StrRaises == IF "_aliases" \in BaseTypeInterfaceSlots THEN "none" ELSE "AttributeError"

\* raise GroupBaseTypeException(f"... is already used by {base_type_}"): the
\* exception that leaves the statement
RaiseAlreadyUsed == IF StrRaises = "none" THEN "GroupBaseTypeException" ELSE StrRaises

\* The tuple _validate_types passes as exclude.
ReservedAliases ==
    Exclude(<<Chars("int"), Chars("INT"), Chars("Set"), Chars("set"), Chars("SET")>>)

\* The loop over base_type.aliases in _validate_types, from the k-th alias:
\* "ok" when it ends, else the exception raised.
RECURSIVE ValidateAliasesFrom(_, _, _, _)
ValidateAliasesFrom(base_type, base_type_, exclude, k) ==
    IF k > Len(base_type.aliases) THEN "ok"
    ELSE LET found == ContainsAlias(base_type_, base_type.aliases[k], exclude)
         IN IF found = "raise" THEN "GroupBaseTypeException"
            ELSE IF found = "True" THEN RaiseAlreadyUsed
            ELSE ValidateAliasesFrom(base_type, base_type_, exclude, k + 1)

\* The body of the inner loop of _validate_types for one pair of base types.
ValidatePair(base_type, base_type_, exclude) ==
    IF base_type.obj = base_type_.obj THEN "ok"
    ELSE IF TypeToString(base_type.type_class) = TypeToString(base_type_.type_class)
    THEN RaiseAlreadyUsed
    ELSE ValidateAliasesFrom(base_type, base_type_, exclude, 1)

\* The inner loop of _validate_types, from the j-th base type.
RECURSIVE ValidateAgainstFrom(_, _, _, _)
ValidateAgainstFrom(all_base_types, base_type, exclude, j) ==
    IF j > Len(all_base_types) THEN "ok"
    ELSE LET r == ValidatePair(base_type, all_base_types[j], exclude)
         IN IF r # "ok" THEN r
            ELSE ValidateAgainstFrom(all_base_types, base_type, exclude, j + 1)

\* The outer loop of _validate_types, from the i-th base type.
RECURSIVE ValidateTypesFrom(_, _, _)
ValidateTypesFrom(all_base_types, exclude, i) ==
    IF i > Len(all_base_types) THEN "True"
    ELSE IF CheckForErrors(all_base_types[i]) THEN "GroupBaseTypeException"
    ELSE LET r == ValidateAgainstFrom(all_base_types, all_base_types[i], exclude, 1)
         IN IF r # "ok" THEN r
            ELSE ValidateTypesFrom(all_base_types, exclude, i + 1)

\* Mutant of ValidateTypes: the aliases are compared without the exclude tuple.
ValidateTypesWithoutExclude(all_base_types) ==
    ValidateTypesFrom(all_base_types, NoExclude, 1)

\* BaseTypes_._validate_types(): "True", or the exception it raises.
ValidateTypes(all_base_types) ==
    ValidateTypesFrom(all_base_types, ReservedAliases, 1)

\* What a lookup gives: a class, or an exception.
Found(type_class) == [tag |-> "type", v |-> type_class.name]
LookupRaised(exc) == [tag |-> "raise", v |-> exc]

\* BaseTypes_._get_type("aliases", query_value), from the i-th base type,
\* followed by .type_class.
RECURSIVE GetTypeFrom(_, _, _)
GetTypeFrom(all_base_types, query_value, i) ==
    IF i > Len(all_base_types) THEN LookupRaised("GroupBaseTypeException")
    ELSE LET found == TypeContains(all_base_types[i], query_value, NoExclude)
         IN IF found = "raise" THEN LookupRaised("GroupBaseTypeException")
            ELSE IF found = "True" THEN Found(all_base_types[i].type_class)
            ELSE GetTypeFrom(all_base_types, query_value, i + 1)

\* BaseTypes_._get_type_from_alias(alias)
BaseTypesGetTypeFromAlias(all_base_types, alias) ==
    GetTypeFrom(all_base_types, alias, 1)

\* The registries the model constructs: BaseTypes_(), BaseTypes_(<slot>=kind)
\* with a new BaseTypeInterface, and BaseTypes_(<slot>=<another slot's default>).
OverrideSlots == {1, 10}
SharedSlots == {2, 9}
AliasTuples ==
    {<<Chars("foo")>>, <<Chars("float")>>,
     <<Chars("foo"), Chars("foobar")>>, <<Chars("foobar"), Chars("foo")>>,
     <<Chars("foo"), Chars("float")>>, <<Chars("foo"), Chars("foo")>>}
TypeClasses == {Class("int"), Class("float")}
Brackets ==
    {<<NoStr, NoStr, NoStr>>,
     <<Some(OpenSquare), Some(OpenSquare), Some(Comma)>>,
     <<NoStr, Some(CloseSquare), NoStr>>,
     <<Some(OpenSquare), NoStr, Some(Comma)>>,
     <<Some(OpenSquare), Some(CloseSquare), Some(Comma)>>}
NewBaseTypes ==
    {BaseTypeInterface(11, a, b[1], b[2], b[3], t) :
        a \in AliasTuples, b \in Brackets, t \in TypeClasses}
SharedBaseTypes == {DefaultBaseTypes[i] : i \in SharedSlots}

NoRegistry == [st |-> "none", slot |-> 0, kind |-> DefaultBaseTypes[1],
               validation |-> "none"]
NewRegistry(slot, kind) == [st |-> "ok", slot |-> slot, kind |-> kind,
                            validation |-> "none"]

\* BaseTypes_.all_base_types
AllBaseTypes(reg) ==
    [i \in DOMAIN BaseTypesSlots |->
        IF i = reg.slot THEN reg.kind ELSE DefaultBaseTypes[i]]

\* Every alias a base type of the registry declares.
DeclaredAliases(all_base_types) ==
    UNION {Range(all_base_types[i].aliases) : i \in DOMAIN all_base_types}

\* Every substring of a str.
Substrings(s) == {SubSeq(s, i, j) : i \in 1..(Len(s) + 1), j \in 0..Len(s)}

\* The strs looked up.  On the default registry: every declared alias, every
\* substring of the first alias of each base type and of the name of its class,
\* and some strs that are in no alias.  On another registry: the aliases of the
\* new base type, their prefixes, and the same strs.
OtherQueries == {Chars("schema"), Chars("address"), <<"i", "n", "t", "s">>}
Prefixes(s) == {SubSeq(s, 1, j) : j \in 0..Len(s)}
Queries(reg) ==
    IF reg.slot = 0
    THEN DeclaredAliases(DefaultBaseTypes)
            \cup UNION {Substrings(DefaultBaseTypes[i].aliases[1]) \cup
                          Substrings(Chars(DefaultBaseTypes[i].type_class.name)) :
                            i \in DOMAIN DefaultBaseTypes}
            \cup OtherQueries
    ELSE UNION {Prefixes(a) : a \in Range(reg.kind.aliases)} \cup OtherQueries

NoLookup == [query |-> <<>>, tag |-> "none", v |-> "none"]

-----------------------------------------------------------------------------
(* The state machine *)

NoRet == [op |-> "none", arg |-> <<>>, val |-> RNone, out |-> NativeNone]
Returned(op, arg, val) == [op |-> op, arg |-> arg, val |-> val, out |-> NativeNone]

Idle ==
    /\ cont.status = "none"
    /\ tree.st = "none"
    /\ schema.st = "none"
    /\ registry.st = "none"

Init ==
    /\ source = NativeNone
    /\ declared = Omitted
    /\ cont = NoContainer
    /\ tree = NoTree
    /\ ret = NoRet
    /\ schema = NoSchema
    /\ verdict = NoVerdict
    /\ registry = NoRegistry
    /\ lookup = NoLookup

\* BaseContainer(src, arg)
Construct ==
    /\ Idle
    /\ \E src \in Sources, arg \in DeclaredArgs :
         \E it \in Iterations(src) :
            /\ source' = src
            /\ declared' = arg
            /\ cont' = NewContainer(src, arg, it)
    /\ UNCHANGED <<tree, ret, schema, verdict, registry, lookup>>

\* str(container)
Repackage ==
    /\ cont.status = "ok"
    /\ ret' = [op |-> "unpack", arg |-> <<>>, val |-> RNone,
               out |-> Unpack(cont.items, cont.type)]
    /\ UNCHANGED <<source, declared, cont, tree, schema, verdict, registry, lookup>>

\* container._hash()
Hash ==
    /\ cont.status = "ok"
    /\ tree.st = "none"
    /\ tree' = ContainerHash(cont)
    /\ ret' = Returned("hash", <<>>, Root(ContainerHash(cont)))
    /\ UNCHANGED <<source, declared, cont, schema, verdict, registry, lookup>>

\* container._verify_item(BaseValue(x))
VerifyItemCall ==
    /\ cont.status = "ok"
    /\ \E x \in Scalars :
         ret' = Returned("verify_item", ValueHash(BaseValue(x)),
                         RBool(VerifyItem(cont, BaseValue(x))))
    /\ UNCHANGED <<source, declared, cont, tree, schema, verdict, registry, lookup>>

\* MerkleTree(hashed_data)
MerkleTreeInit ==
    /\ Idle
    /\ \E data \in HashedData : tree' = NewMerkleTree(data)
    /\ ret' = Returned("init", <<>>, RNone)
    /\ UNCHANGED <<source, declared, cont, schema, verdict, registry, lookup>>

\* tree.build() on a tree that __init__ has built
BuildAgain ==
    /\ tree.st = "built"
    /\ Len(tree.levels) < MaxLevels
    /\ tree' = [tree EXCEPT !.levels = Build(tree.leaves, tree.levels)]
    /\ ret' = Returned("build", <<>>, RNone)
    /\ UNCHANGED <<source, declared, cont, schema, verdict, registry, lookup>>

\* tree.root
RootCall ==
    /\ tree.st = "built"
    /\ ret' = Returned("root", <<>>, Root(tree))
    /\ UNCHANGED <<source, declared, cont, tree, schema, verdict, registry, lookup>>

\* tree.verify(leaf_hash)
VerifyCall ==
    /\ tree.st = "built"
    /\ \E h \in LeafHashes \cup Range(tree.leaves) \cup InnerDigests(tree) :
         ret' = Returned("verify", h, RBool(Verify(tree, h)))
    /\ UNCHANGED <<source, declared, cont, tree, schema, verdict, registry, lookup>>

\* The object is dropped.
Discard ==
    /\ ~Idle
    /\ source' = NativeNone
    /\ declared' = Omitted
    /\ cont' = NoContainer
    /\ tree' = NoTree
    /\ ret' = NoRet
    /\ schema' = NoSchema
    /\ verdict' = NoVerdict
    /\ registry' = NoRegistry
    /\ lookup' = NoLookup

\* BaseSchema(fields)
SchemaConstruct ==
    /\ Idle
    /\ \E fields \in Schemas : schema' = NewSchema(fields)
    /\ UNCHANGED <<source, declared, cont, tree, ret, verdict, registry, lookup>>

\* schema._verify_schema()
VerifySchemaCall ==
    /\ schema.st = "ok"
    /\ \E order \in KeyTypeOrders(schema.fields) :
          verdict' = VerifySchema(schema.fields, order)
    /\ UNCHANGED <<source, declared, cont, tree, ret, schema, registry, lookup>>

\* BaseTypes_(...): the object is built from its fields; nothing else runs.
RegistryConstruct ==
    /\ Idle
    /\ \/ registry' = NewRegistry(0, DefaultBaseTypes[1])
       \/ \E slot \in OverrideSlots, kind \in NewBaseTypes \cup SharedBaseTypes :
             registry' = NewRegistry(slot, kind)
    /\ UNCHANGED <<source, declared, cont, tree, ret, schema, verdict, lookup>>

\* registry._validate_types()
ValidateTypesCall ==
    /\ registry.st = "ok"
    /\ registry' = [registry EXCEPT
                       !.validation = ValidateTypes(AllBaseTypes(registry))]
    /\ UNCHANGED <<source, declared, cont, tree, ret, schema, verdict, lookup>>

\* registry._get_type_from_alias(alias); the lookup changes nothing, and the
\* model keeps the first one made on a registry object.
GetTypeFromAliasCall ==
    /\ registry.st = "ok"
    /\ lookup = NoLookup
    /\ \E alias \in Queries(registry) :
          lookup' = [query |-> alias] @@
                    BaseTypesGetTypeFromAlias(AllBaseTypes(registry), alias)
    /\ UNCHANGED <<source, declared, cont, tree, ret, schema, verdict, registry>>

Next ==
    \/ Construct
    \/ Repackage
    \/ Hash
    \/ VerifyItemCall
    \/ MerkleTreeInit
    \/ BuildAgain
    \/ RootCall
    \/ VerifyCall
    \/ SchemaConstruct
    \/ VerifySchemaCall
    \/ RegistryConstruct
    \/ ValidateTypesCall
    \/ GetTypeFromAliasCall
    \/ Discard

Spec == Init /\ [][Next]_vars

-----------------------------------------------------------------------------
(* Every Container that can be constructed, every tree that can be built *)

OkContainers ==
    {c \in UNION {{NewContainer(src, arg, it) : it \in Iterations(src)} :
                    src \in Sources, arg \in DeclaredArgs} :
        c.status = "ok"}

\* <<leaves, root>> of the hash tree of every Container
ContainerRoots ==
    {<<HashedItems(c), Root(ContainerHash(c))>> : c \in OkContainers}

\* <<leaves, root>> of every tree MerkleTree(...) builds
TreeRoots ==
    {<<t.leaves, Root(t)>> :
        t \in {u \in {NewMerkleTree(d) : d \in HashedData} : u.st = "built"}}

-----------------------------------------------------------------------------
(* C1..C10 *)

\* C1: for a flat list, tuple or dict source of primitive scalars and the
\* matching kind, repackaging the constructed Container gives back a
\* collection equal to the source, element order and the pairing and
\* insertion order of dict entries included.
C1_RepackageRoundTrip ==
    (/\ ret.op = "unpack"
     /\ source.shape \in {"list", "tuple", "dict"}
     /\ cont.type = source.shape)
    => ret.out = source

C1_Witness ==
    /\ ret.op = "unpack"
    /\ source.shape = "dict"
    /\ cont.type = "dict"
    /\ Len(source.pairs) = 2
    /\ source.pairs[1][1] # source.pairs[1][2]
    /\ Len(cont.items) = 4
    /\ ret.out = source

\* C2 (as claimed): for every container kind, whenever an element of a linear
\* source, or a key or a value of a dict source, is itself a collection,
\* construction fails with GroupBaseContainerException.
HasNestedCollection(src) ==
    \/ \E i \in 1..Len(src.seq) : IsContainerValue(src.seq[i])
    \/ \E e \in src.set : IsContainerValue(e)
    \/ \E i \in 1..Len(src.pairs) :
          IsContainerValue(src.pairs[i][1]) \/ IsContainerValue(src.pairs[i][2])

C2_NestedAlwaysContainerException ==
    (/\ cont.status # "none"
     /\ TypeField(declared) \in ContainerKinds
     /\ HasNestedCollection(source))
    => cont.status = "GroupBaseContainerException"

\* C3 (as claimed): the root of the hash tree of a Container differs from
\* the root of every Container whose leaf sequence has the same length and
\* differs from its own at some position.
C3_SameLengthRootsDiffer ==
    ret.op = "hash"
    => \A e \in ContainerRoots :
          (Len(e[1]) = Len(tree.leaves) /\ e[1] # tree.leaves) => e[2] # ret.val

\* C4 (as claimed): trees built over leaf sequences of different lengths
\* have different roots.
C4_DifferentLengthRootsDiffer ==
    tree.st = "built"
    => \A e \in TreeRoots :
          Len(e[1]) # Len(tree.leaves) => e[2] # Root(tree)

\* C5: the hash tree of a Container with n items has n + 1 leaves: the
\* content hash of items[i] at position i, in item order, then one leaf that
\* is the hash of the kind tag; the content hash is the root of that tree.
C5_ContainerLeaves ==
    ret.op = "hash"
    => /\ tree.st = "built"
       /\ Len(tree.leaves) = Len(cont.items) + 1
       /\ \A i \in 1..Len(cont.items) : tree.leaves[i] = ValueHash(cont.items[i])
       /\ tree.leaves[Len(cont.items) + 1] = KindHash(cont.type)
       /\ tree.levels[1].hs = tree.leaves
       /\ ret.val = Root(tree)

C5_Witness ==
    /\ ret.op = "hash"
    /\ Len(cont.items) = 2
    /\ cont.items[1] # cont.items[2]
    /\ Len(tree.leaves) = 3
    /\ ret.val.tag = "digest"

\* C6: verify(candidate) is true exactly when candidate is one of the leaf
\* hashes the tree was built from; a hash found only above the leaves is
\* rejected, and an empty tree rejects every candidate.
C6_VerifyIffLeaf ==
    ret.op = "verify"
    => /\ ret.val = RBool(\E i \in 1..Len(tree.data) : tree.data[i] = ret.arg)
       /\ (tree.data = <<>> => ret.val = RBool(FALSE))

C6_Witness ==
    /\ ret.op = "verify"
    /\ ret.arg \in InnerDigests(tree)
    /\ ret.arg \notin Range(tree.data)
    /\ ret.val = RBool(FALSE)

\* C7 (as claimed): the root of a tree built over one leaf h is the full
\* digest of h paired with itself.
C7_SingleLeafRootIsPairDigest ==
    (ret.op = "root" /\ Len(tree.data) = 1)
    => ret.val = RDigest(<<tree.data[1], tree.data[1]>>)

\* C8: MerkleTree over an empty leaf sequence is constructed without an
\* exception, and its root is None.
C8_EmptyTreeRootIsNone ==
    (tree.st # "none" /\ tree.data = <<>>)
    => /\ tree.st = "built"
       /\ Root(tree) = RNone
       /\ (ret.op = "root" => ret.val = RNone)

C8_Witness ==
    /\ tree.st = "built"
    /\ tree.data = <<>>
    /\ ret.op = "root"
    /\ ret.val = RNone

\* C9 (as claimed): no operation on a built tree changes its leaves or its
\* levels.
C9_BuiltTreeNeverChanges ==
    [][(tree.st = "built" /\ tree'.st = "built")
        => (tree'.leaves = tree.leaves /\ tree'.levels = tree.levels)]_vars

\* C10 (as claimed): a Container constructed without a declared kind has the
\* kind of the source's native shape.
C10_OmittedKindIsSourceShape ==
    (cont.status = "ok" /\ declared = Omitted) => cont.type = source.shape

-----------------------------------------------------------------------------
(* C11..C20 *)

\* C11: a Container constructed from a dict with entries (k1, v1), ...,
\* (kn, vn) in insertion order holds exactly the 2n items Value(k1),
\* Value(v1), ..., Value(kn), Value(vn) in that order.
C11_DictItemsInterleaved ==
    (cont.status = "ok" /\ source.shape = "dict")
    => /\ Len(cont.items) = 2 * Len(source.pairs)
       /\ \A i \in 1..Len(source.pairs) :
             /\ cont.items[2 * i - 1] = BaseValue(source.pairs[i][1])
             /\ cont.items[2 * i] = BaseValue(source.pairs[i][2])

C11_Witness ==
    /\ cont.status = "ok"
    /\ source.shape = "dict"
    /\ Len(source.pairs) = 2
    /\ source.pairs[1][2] # source.pairs[2][1]
    /\ Len(cont.items) = 4
    /\ cont.items[2] = BaseValue(source.pairs[1][2])
    /\ cont.items[3] = BaseValue(source.pairs[2][1])

AllFieldsIn(P) ==
    /\ Len(schema.fields) >= 1
    /\ \A i \in 1..Len(schema.fields) :
          schema.fields[i].k = "str" /\ schema.fields[i].s \in P

\* C13: a schema whose fields are "list[", "tuple[" and "dict[" nested to any
\* depth around one valid primitive alias and closed by as many "]" verifies
\* as (True, "").
C13_NestedWrappersVerify ==
    (verdict.tag # "none" /\ AllFieldsIn(ChainExprs)) => verdict = Pair(TRUE, <<>>)

C13_Witness ==
    /\ verdict = Pair(TRUE, <<>>)
    /\ AllFieldsIn(NestedChains(MaxDepth))
    /\ StartsWith(schema.fields[1].s, Chars("tuple") \o OpenSquare)
    /\ Contains(schema.fields[1].s, Chars("dict") \o OpenSquare)

\* C14 (as claimed): a schema whose fields are expressions of the container
\* grammar with valid primitive aliases as leaves verifies as (True, "").
C14_GrammarExprsVerify ==
    (verdict.tag # "none" /\ AllFieldsIn(GrammarExprs)) => verdict = Pair(TRUE, <<>>)

\* C15 (as claimed): for each of the five container aliases and each balanced
\* pair of brackets, alias + open + valid primitive alias + close verifies as
\* (True, "").
C15_BracketStyleInterchangeable ==
    (verdict.tag # "none" /\ AllFieldsIn(BracketExprs)) => verdict = Pair(TRUE, <<>>)

\* The leaf tokens of one field, unpacked on its own.
FieldTokens(d) ==
    IF d.k = "str" THEN FullyUnpackTypes(<<d.s>>)
    ELSE IF d.k = "schema"
    THEN <<SchemaMarker>>
         \o FullyUnpackTypes([i \in 1..Len(d.fields) |-> d.fields[i].s])
    ELSE <<>>

SchemaTokens == UNION {Range(FieldTokens(schema.fields[i])) : i \in 1..Len(schema.fields)}

\* C16: verification looks at every field before it returns: ok is False
\* exactly when some leaf token of some field is invalid, and the message
\* names every invalid leaf token of every field.
C16_EveryFieldChecked ==
    verdict.tag = "pair"
    => /\ verdict.ok = (SchemaTokens \subseteq ValidKeyTypes)
       /\ \A t \in SchemaTokens \ ValidKeyTypes : t \in Range(verdict.msg)

C16_Witness ==
    /\ verdict.tag = "pair"
    /\ Len(schema.fields) = 2
    /\ schema.fields[1] = Text(Chars("foo"))
    /\ schema.fields[2] = Text(Chars("bar"))
    /\ ~verdict.ok
    /\ Range(verdict.msg) = {Chars("foo"), Chars("bar")}

\* C17 (as claimed): every invalid token is named once in the message, however
\* often it occurs in the fields.
C17_InvalidTokenNamedOnce ==
    verdict.tag = "pair" => Distinct(verdict.msg)

\* C18 (as claimed): verification never raises: for every schema that was
\* constructed it returns a pair (ok, message).
C18_VerifyNeverRaises ==
    verdict.tag # "none" => verdict.tag = "pair"

\* C19 (as claimed): a leaf token is accepted by verification exactly when it
\* is the marker "schema" or an alias the registry declares for a primitive
\* kind.
C19_LeafTokensAgreeWithRegistry ==
    (verdict.tag # "none" /\ Len(schema.fields) = 1 /\ AllFieldsIn(Tokens))
    => verdict.ok = (\/ schema.fields[1].s = SchemaMarker
                     \/ schema.fields[1].s \in {Chars(a) : a \in AllPrimitiveAliases})

\* A descriptor that refers to a schema: an embedded Schema whose fields are
\* valid, or a str that starts with "schema:".
IsSchemaReference(d) ==
    \/ d.k = "schema" /\ \A i \in 1..Len(d.fields) : d.fields[i].s \in ValidKeyTypes
    \/ d.k = "str" /\ StartsWith(d.s, SchemaMarker \o Colon)

\* C20: a field that is an embedded Schema with valid fields, or a str that
\* starts with "schema:", is accepted: with the other fields valid the schema
\* verifies as (True, "").
C20_SchemaReferenceAccepted ==
    (/\ verdict.tag # "none"
     /\ \E i \in 1..Len(schema.fields) : IsSchemaReference(schema.fields[i])
     /\ \A i \in 1..Len(schema.fields) :
           \/ IsSchemaReference(schema.fields[i])
           \/ schema.fields[i].k = "str" /\ schema.fields[i].s \in ValidKeyTypes)
    => verdict = Pair(TRUE, <<>>)

C20_Witness ==
    /\ verdict = Pair(TRUE, <<>>)
    /\ Len(schema.fields) = 2
    /\ schema.fields[1].k = "schema"
    /\ Len(schema.fields[1].fields) = 1
    /\ schema.fields[2].k = "str"
    /\ StartsWith(schema.fields[2].s, SchemaMarker \o Colon)

-----------------------------------------------------------------------------
(* C21..C30 *)

\* The base types of the registry that declare the alias.
Declaring(all_base_types, alias) ==
    {i \in DOMAIN all_base_types : alias \in Range(all_base_types[i].aliases)}

\* C21: on the default registry, looking up an alias that a base type declares
\* returns the type class of every base type declaring it and does not raise;
\* looking up a str that no base type declares, a proper substring of an alias
\* included, raises GroupBaseTypeException.
C21_AliasResolutionIsExact ==
    (registry.st = "ok" /\ registry.slot = 0 /\ lookup.tag # "none") =>
        LET all_base_types == AllBaseTypes(registry)
            declaring == Declaring(all_base_types, lookup.query)
        IN IF declaring # {}
           THEN \A i \in declaring :
                    /\ lookup.tag = "type"
                    /\ lookup.v = all_base_types[i].type_class.name
           ELSE lookup.tag = "raise" /\ lookup.v = "GroupBaseTypeException"

\* The default registry was asked for "nt", a proper substring of "int" that no
\* base type declares, and the lookup raised.
C21_Witness ==
    /\ registry.st = "ok"
    /\ registry.slot = 0
    /\ lookup.query = <<"n", "t">>
    /\ Contains(Chars("int"), lookup.query)
    /\ Declaring(AllBaseTypes(registry), lookup.query) = {}
    /\ lookup.tag = "raise"

\* Two base types held in different fields of the registry declare the same
\* alias or have the same type class.
Collides(all_base_types) ==
    \E i, j \in DOMAIN all_base_types :
        /\ i # j
        /\ \/ Range(all_base_types[i].aliases) \cap Range(all_base_types[j].aliases) # {}
           \/ all_base_types[i].type_class = all_base_types[j].type_class

\* C22: whenever two base types of a registry share an alias or a type class,
\* _validate_types() raises the registry's exception, GroupBaseTypeException.
C22_CollisionRaisesRegistryException ==
    (registry.st = "ok" /\ registry.validation # "none"
        /\ Collides(AllBaseTypes(registry)))
    => registry.validation = "GroupBaseTypeException"

\* C23: the default registry has ten base types, five without brackets and five
\* with, no two of which share an alias or a type class, and
\* _validate_types() returns True for it.
C23_DefaultRegistryValidates ==
    (registry.st = "ok" /\ registry.slot = 0) =>
        /\ Len(AllBaseTypes(registry)) = 10
        /\ Cardinality({i \in DOMAIN AllBaseTypes(registry) :
                            AllBaseTypes(registry)[i].prefix = NoStr}) = 5
        /\ ~Collides(AllBaseTypes(registry))
        /\ registry.validation \in {"none", "True"}
        /\ ValidateTypes(AllBaseTypes(registry)) = "True"

\* _validate_types() was called on the default registry and returned.
C23_Witness ==
    /\ registry.st = "ok"
    /\ registry.slot = 0
    /\ registry.validation = "True"

\* One of the base type's aliases is a substring of another of its aliases.
OwnAliasIsSubstring(base_type) ==
    \E i, j \in DOMAIN base_type.aliases :
        i # j /\ Contains(base_type.aliases[j], base_type.aliases[i])

\* C24: _validate_types() never returns True for a registry one of whose base
\* types has an alias that is a substring of another of its own aliases.
C24_OwnSubstringAliasesRejected ==
    (registry.st = "ok" /\ registry.validation = "True") =>
        \A i \in DOMAIN AllBaseTypes(registry) :
            ~OwnAliasIsSubstring(AllBaseTypes(registry)[i])

\* C25: a registry serves a lookup only after _validate_types() has run on it.
C25_ValidatedBeforeLookup ==
    (registry.st = "ok" /\ lookup.tag # "none") => registry.validation # "none"

\* The strs among the key types of the schema.
SchemaKeyTypes ==
    IF GetKeyTypesFromSchema(schema.fields).tag = "ok"
    THEN {d.s : d \in {e \in GetKeyTypesFromSchema(schema.fields).set : e.k = "str"}}
    ELSE {}

\* C26: unpacking the type strings of a schema ends, because every recursive
\* call of _unpack_strings is handed a str shorter than its caller's, and every
\* recursive call of _fully_unpack_types is handed a part that is shorter than
\* the str it was split from, which is no longer than the caller's key type.
C26_UnpackingShortens ==
    schema.st = "ok" =>
        \A key_type \in SchemaKeyTypes :
            /\ \A c \in FullyUnpackCalls(key_type) :
                  /\ Len(c[3]) < Len(c[2])
                  /\ Len(c[2]) <= Len(c[1])
                  /\ Len(c[3]) < Len(c[1])
            /\ \A t \in KeyTypesUnpacked(key_type) :
                  \A c \in UnpackCalls(t) : Len(c[2]) < Len(c[1])

\* A schema was verified one of whose key types made _unpack_strings call
\* itself twice and _fully_unpack_types call itself on the parts of a split.
C26_Witness ==
    /\ schema.st = "ok"
    /\ verdict.tag = "pair"
    /\ \E key_type \in SchemaKeyTypes :
          /\ Cardinality(UnpackCalls(key_type)) >= 2
          /\ FullyUnpackCalls(key_type) # {}
          /\ \E t \in KeyTypesUnpacked(key_type) : t # key_type /\ UnpackCalls(t) # {}

\* C27: a schema whose fields are container expressions with a missing or a
\* mismatched closing bracket verifies with ok = False.
C27_MismatchedBracketsRejected ==
    (verdict.tag # "none" /\ AllFieldsIn(MismatchedExprs)) =>
        (verdict.tag = "pair" /\ ~verdict.ok)

\* C28: verify(h) on the hash tree of a Container returns True only for the
\* hash of one of the Container's items; the hash of the kind tag, the last
\* leaf, is not accepted.
C28_VerifyAcceptsOnlyItems ==
    (cont.status = "ok" /\ tree.st = "built" /\ ret.op = "verify"
        /\ ret.val = RBool(TRUE))
    => \E i \in 1..Len(cont.items) : ret.arg = ValueHash(cont.items[i])

\* C29: a Container whose type is dict holds an even number of items, whatever
\* the collection it was constructed from.
C29_DictContainerHasEvenItems ==
    (cont.status = "ok" /\ cont.type = "dict") => Len(cont.items) % 2 = 0

\* C30: however many times build() has been called again on a tree, root is
\* what it was when __init__ returned, for every number of leaves.
C30_RebuildKeepsRoot ==
    tree.st = "built" => Root(tree) = Root(NewMerkleTree(tree.data))

\* build() has just been called again on a tree with one leaf, which now has
\* more levels than __init__ gave it.
C30_Witness ==
    /\ tree.st = "built"
    /\ ret.op = "build"
    /\ Len(tree.leaves) = 1
    /\ Len(tree.levels) > Len(NewMerkleTree(tree.data).levels)

====
